---- MODULE Spec2Model ----
(***************************************************************************)
(* TuneTudo: the authentication core (services.AuthService, the process-   *)
(* wide passwordResetStore, the users table) as a state machine.           *)
(*                                                                         *)
(* Each element of Procs is one client connection together with the        *)
(* goroutine that serves its current request.  A request that touches      *)
(* shared state (the users table, the reset-token map) more than once is   *)
(* split at those accesses, so requests of different connections           *)
(* interleave exactly where the Go handlers can.  The clock counts         *)
(* minutes.                                                                *)
(***************************************************************************)
EXTENDS Integers, Sequences, FiniteSets, TLC

VARIABLES
    users,               \* the users table, in rowid order (id = position)
    passwordResetStore,  \* var passwordResetStore: email -> PasswordResetToken
    now,                 \* time.Now(), in minutes
    ticks,               \* how often the clock has advanced (bounds the run)
    nextToken,           \* the next value GenerateSecureToken returns
    serverUp,            \* FALSE once the Go runtime has aborted the process
    playlists,           \* the playlists table: id -> row
    playlist_songs,      \* the playlist_songs table, in rowid order
    playlistSeq,         \* sqlite_sequence of playlists (AUTOINCREMENT)
    proc,                \* per connection: the request being served and its result
    hist                 \* history of the run (read by the properties only)

playlistVars == <<playlists, playlist_songs, playlistSeq>>

vars == <<users, passwordResetStore, now, ticks, nextToken, serverUp, proc, hist,
          playlistVars>>

----------------------------------------------------------------------------
(* Bounds of the model *)

MaxTicks == 2
MaxResetTokens == 2

(* Program constants *)

MinPasswordLen == 8
ResetTokenTTL == 15
SessionTTL == 7 * 24 * 60
BcryptDefaultCost == 10
BcryptResetCost == 12
StatusOK == 200
StatusUnauthorized == 401

Procs == {"c1", "c2"}

Usernames == {"alice", "bob"}
\* "bob" is also usable as an e-mail: RegisterUser does not look at the shape
\* of req.Email, and LoginUser matches its identifier against both columns.
Emails == {"bob", "al@x.io"}
Passwords == {"short", "password", "passw0rd1"}
ValidPasswords == {w \in Passwords : Len(w) >= MinPasswordLen}
JwtSecret == "sup3rdup3rs3cr3t"

----------------------------------------------------------------------------
(* Values *)

NoUser == 0
NoResetToken == 0
NoEmail == ""

\* A session token string.  kind "jwt" is three well-formed segments; the
\* record holds what the segments decode to and the key the signature was
\* made with.  kind "empty" is the empty string, kind "garbage" any other
\* string that is no JWT.
NoSession ==
    [kind |-> "empty", alg |-> "", key |-> "", user_id |-> NoUser, username |-> "",
     is_admin |-> FALSE, hasExp |-> FALSE, exp |-> 0, iat |-> 0]

NoClaims == [user_id |-> NoUser, username |-> "", is_admin |-> FALSE]

NoResult ==
    [ok |-> FALSE, err |-> "", user |-> NoUser, email |-> NoEmail,
     token |-> NoSession, claims |-> NoClaims]

\* What a route answered: the status and message of a rejection by a
\* middleware, or handler = TRUE with the values the request context held when
\* the route's handler ran.
NoResponse == [status |-> 0, message |-> "", handler |-> FALSE, locals |-> NoClaims]

NoPlaylist == 0
NoSong == 0

IdleProc ==
    [pc |-> "idle", op |-> "", username |-> "", email |-> NoEmail, password |-> "",
     oldpw |-> "", rtok |-> NoResetToken, uid |-> NoUser, presented |-> NoSession,
     sess |-> NoSession, res |-> NoResult, http |-> NoResponse,
     playlist |-> NoPlaylist, song |-> NoSong, queue |-> 0]

\* History: what each user registered with (by id), the users whose password a
\* reset has changed, and for each reset token generated so far (by value)
\* what became of it.
InitHist == [reg |-> <<>>, pwChanged |-> {}, rt |-> <<>>]

NewTokenHist(e, t) ==
    [email |-> e, at |-> t, sent |-> FALSE, replaced |-> FALSE, uses |-> 0]

----------------------------------------------------------------------------
(* Password hasher: golang.org/x/crypto/bcrypt.  The salt is left out: a    *)
(* hash is identified by the password it was made from and its cost.        *)

GenerateFromPassword(password, cost) ==
    [alg |-> "bcrypt", cost |-> cost, of |-> password]

CompareHashAndPassword(hash, password) ==
    hash.alg = "bcrypt" /\ hash.of = password

----------------------------------------------------------------------------
(* Credential store: the users table of RunMigrations *)

UserIds == 1..Len(users)

UsernameTaken(u) == \E i \in UserIds : users[i].username = u
EmailTaken(e) == \E i \in UserIds : users[i].email = e

\* Mutants of InsertViolatesUnique: the table without UNIQUE on email, and
\* without UNIQUE on username.
InsertViolatesUniqueUsernameOnly(u, e) == UsernameTaken(u)
InsertViolatesUniqueEmailOnly(u, e) == EmailTaken(e)

\* INSERT INTO users ...: fails on either UNIQUE constraint.
InsertViolatesUnique(u, e) == UsernameTaken(u) \/ EmailTaken(e)

\* Mutant of NewUserRow: the row is created as an administrator.
NewUserRowAdmin(u, e, hash) ==
    [id |-> Len(users) + 1, username |-> u, email |-> e, password_hash |-> hash,
     is_admin |-> TRUE, last_login |-> -1]

NewUserRow(u, e, hash) ==
    [id |-> Len(users) + 1, username |-> u, email |-> e, password_hash |-> hash,
     is_admin |-> FALSE, last_login |-> -1]

\* Mutant of FindByEmail: any row will do.
FindByEmailAnyRow(e) == IF UserIds # {} THEN 1 ELSE NoUser

\* SELECT ... FROM users WHERE email = ?
FindByEmail(e) ==
    IF EmailTaken(e) THEN CHOOSE i \in UserIds : users[i].email = e ELSE NoUser

\* Mutant of FindByUsernameOrEmail: the e-mail match is taken first.
FindByEmailOrUsername(ident) ==
    IF EmailTaken(ident)
    THEN CHOOSE i \in UserIds : users[i].email = ident
    ELSE IF UsernameTaken(ident)
    THEN CHOOSE i \in UserIds : users[i].username = ident
    ELSE NoUser

\* SELECT ... FROM users WHERE username = ? OR email = ?  (first row scanned).
\* SQLite answers this with a multi-index OR: it searches the username index,
\* then the email index, so a row matching by username comes first.
FindByUsernameOrEmail(ident) ==
    IF UsernameTaken(ident)
    THEN CHOOSE i \in UserIds : users[i].username = ident
    ELSE FindByEmail(ident)

----------------------------------------------------------------------------
(* Token issuer / validator *)

\* Mutant of GenerateToken: the expiry is set 30 days ahead.
GenerateTokenThirtyDays(row, t) ==
    [kind |-> "jwt", alg |-> "HS256", key |-> JwtSecret, user_id |-> row.id,
     username |-> row.username, is_admin |-> row.is_admin,
     hasExp |-> TRUE, exp |-> t + 30 * 24 * 60, iat |-> t]

GenerateToken(row, t) ==
    [kind |-> "jwt", alg |-> "HS256", key |-> JwtSecret, user_id |-> row.id,
     username |-> row.username, is_admin |-> row.is_admin,
     hasExp |-> TRUE, exp |-> t + SessionTTL, iat |-> t]

HmacAlgs == {"HS256", "HS384", "HS512"}

\* golang-jwt/v4 MapClaims.Valid, "exp" not required.  The v4 releases differ
\* at the instant of expiry: v4.0 accepts now <= exp (inclusive), later ones
\* accept only now < exp.  Which one is linked is a parameter of every call.
JwtBuilds == BOOLEAN

LibraryExpOK(tok, t, inclusive) ==
    ~tok.hasExp \/ (IF inclusive THEN t <= tok.exp ELSE t < tok.exp)

\* jwt.Parse with the key function of ValidateToken.
JwtParseOK(tok, t, inclusive) ==
    /\ tok.kind = "jwt"
    /\ tok.alg \in HmacAlgs
    /\ tok.key = JwtSecret
    /\ LibraryExpOK(tok, t, inclusive)
    /\ t >= tok.iat

\* Mutant of ValidateToken: a token of a user whose password a reset has
\* changed is refused.
ValidateTokenRevokedByReset(tok, t, inclusive) ==
    IF ~JwtParseOK(tok, t, inclusive)
    THEN [NoResult EXCEPT !.err = "invalid or expired token"]
    ELSE IF tok.hasExp /\ t > tok.exp
    THEN [NoResult EXCEPT !.err = "token has expired"]
    ELSE IF tok.user_id \in hist.pwChanged
    THEN [NoResult EXCEPT !.err = "invalid or expired token"]
    ELSE [NoResult EXCEPT !.ok = TRUE,
                          !.claims = [user_id |-> tok.user_id,
                                      username |-> tok.username,
                                      is_admin |-> tok.is_admin]]

ClaimsOf(tok) ==
    [user_id |-> tok.user_id, username |-> tok.username, is_admin |-> tok.is_admin]

ValidateToken(tok, t, inclusive) ==
    IF ~JwtParseOK(tok, t, inclusive)
    THEN [NoResult EXCEPT !.err = "invalid or expired token"]
    ELSE IF tok.hasExp /\ t > tok.exp
    THEN [NoResult EXCEPT !.err = "token has expired"]
    ELSE [NoResult EXCEPT !.ok = TRUE, !.claims = ClaimsOf(tok)]

----------------------------------------------------------------------------
(* Connections *)

Ready(p) == serverUp /\ proc[p].pc \in {"idle", "done"}

\* A new request on connection p: the client keeps the session token it holds.
Begin(p, op) == [IdleProc EXCEPT !.op = op, !.sess = proc[p].sess]

Finish(r, result) == [r EXCEPT !.pc = "done", !.res = result]

\* The same, for the reset requests: only the operation and its result stay.
FinishReset(r, result) ==
    [IdleProc EXCEPT !.pc = "done", !.op = r.op, !.sess = r.sess, !.res = result]

Fail(msg) == [NoResult EXCEPT !.err = msg]

----------------------------------------------------------------------------
(* AuthService.RegisterUser *)

\* Mutant of StartRegister: the policy lets a password of 7 bytes through.
StartRegisterSevenAccepted(p, u, e, pw) ==
    /\ Ready(p)
    /\ LET r == [Begin(p, "register") EXCEPT !.username = u, !.email = e,
                                               !.password = pw]
       IN  proc' = [proc EXCEPT ![p] =
                IF Len(pw) < MinPasswordLen - 1
                THEN Finish(r, Fail("password must be at least 8 characters"))
                ELSE [r EXCEPT !.pc = "reg_insert"]]
    /\ UNCHANGED <<playlistVars, users, passwordResetStore, now, ticks, nextToken, serverUp, hist>>

\* The part before the INSERT: password policy (the hash is made here too; it
\* depends on req.Password only).
StartRegister(p, u, e, pw) ==
    /\ Ready(p)
    /\ LET r == [Begin(p, "register") EXCEPT !.username = u, !.email = e,
                                               !.password = pw]
       IN  proc' = [proc EXCEPT ![p] =
                IF Len(pw) < MinPasswordLen
                THEN Finish(r, Fail("password must be at least 8 characters"))
                ELSE [r EXCEPT !.pc = "reg_insert"]]
    /\ UNCHANGED <<playlistVars, users, passwordResetStore, now, ticks, nextToken, serverUp, hist>>

\* db.Exec(INSERT ...) and what RegisterUser returns.
RegInsert(p) ==
    /\ serverUp
    /\ proc[p].pc = "reg_insert"
    /\ LET r == proc[p]
           hash == GenerateFromPassword(r.password, BcryptDefaultCost)
       IN  IF InsertViolatesUnique(r.username, r.email)
           THEN /\ proc' = [proc EXCEPT ![p] =
                        Finish(r, Fail("username or email already exists"))]
                /\ UNCHANGED <<playlistVars, users, hist>>
           ELSE /\ users' = Append(users, NewUserRow(r.username, r.email, hash))
                /\ proc' = [proc EXCEPT ![p] =
                        Finish(r, [NoResult EXCEPT !.ok = TRUE,
                                                   !.user = Len(users) + 1,
                                                   !.email = r.email])]
                /\ hist' = [hist EXCEPT !.reg = Append(@,
                        [username |-> r.username, email |-> r.email,
                         password |-> r.password])]
    /\ UNCHANGED <<playlistVars, passwordResetStore, now, ticks, nextToken, serverUp>>

----------------------------------------------------------------------------
(* AuthService.LoginUser and AuthController.Login *)

\* Mutant of LoginOutcome: an unknown identifier gets its own message.
LoginOutcomeLeaky(ident, pw, t) ==
    LET i == FindByUsernameOrEmail(ident)
    IN  IF i = NoUser
        THEN Fail("no such user")
        ELSE IF ~CompareHashAndPassword(users[i].password_hash, pw)
        THEN Fail("authorization failed")
        ELSE [NoResult EXCEPT !.ok = TRUE, !.user = i, !.email = users[i].email,
                              !.token = GenerateToken(users[i], t)]

\* What LoginUser returns for (req.Username, req.Password) at time t.
LoginOutcome(ident, pw, t) ==
    LET i == FindByUsernameOrEmail(ident)
    IN  IF i = NoUser
        THEN Fail("authorization failed")
        ELSE IF ~CompareHashAndPassword(users[i].password_hash, pw)
        THEN Fail("authorization failed")
        ELSE [NoResult EXCEPT !.ok = TRUE, !.user = i, !.email = users[i].email,
                              !.token = GenerateToken(users[i], t)]

\* Mutant of LoginUser: last_login is written for the row found, whether or
\* not the password matched.
LoginUserStampsFailures(p, ident, pw) ==
    /\ Ready(p)
    /\ LET out == LoginOutcome(ident, pw, now)
           i == FindByUsernameOrEmail(ident)
           r == [Begin(p, "login") EXCEPT !.username = ident, !.password = pw]
       IN  /\ users' = IF i # NoUser
                       THEN [users EXCEPT ![i].last_login = now]
                       ELSE users
           /\ proc' = [proc EXCEPT ![p] =
                   Finish([r EXCEPT !.sess = IF out.ok THEN out.token ELSE r.sess],
                          out)]
    /\ UNCHANGED <<playlistVars, passwordResetStore, now, ticks, nextToken, serverUp, hist>>

LoginUser(p, ident, pw) ==
    /\ Ready(p)
    /\ LET out == LoginOutcome(ident, pw, now)
           r == [Begin(p, "login") EXCEPT !.username = ident, !.password = pw]
       IN  /\ users' = IF out.ok
                       THEN [users EXCEPT ![out.user].last_login = now]
                       ELSE users
           /\ proc' = [proc EXCEPT ![p] =
                   Finish([r EXCEPT !.sess = IF out.ok THEN out.token ELSE r.sess],
                          out)]
    /\ UNCHANGED <<playlistVars, passwordResetStore, now, ticks, nextToken, serverUp, hist>>

\* The HTTP answer of POST /api/auth/login for a parsed body.
LoginResponse(result) ==
    IF ~result.ok
    THEN [status |-> StatusUnauthorized, error |-> TRUE, message |-> result.err]
    ELSE [status |-> StatusOK, error |-> FALSE, message |-> "login successful"]

----------------------------------------------------------------------------
(* AuthService.ValidateToken on a token string a client presents *)

TamperModes == {"asis", "badkey", "algnone", "noexp", "garbage", "empty"}

\* The strings a client holding token held can present.
Tamper(held, mode) ==
    CASE mode = "asis"    -> held
      [] mode = "badkey"  -> [held EXCEPT !.key = "guess"]
      [] mode = "algnone" -> [held EXCEPT !.alg = "none", !.key = ""]
      [] mode = "noexp"   -> [held EXCEPT !.hasExp = FALSE, !.exp = 0]
      [] mode = "garbage" -> [NoSession EXCEPT !.kind = "garbage"]
      [] OTHER            -> NoSession

ValidateTokenCall(p, mode, inclusive) ==
    /\ Ready(p)
    /\ mode \in {"garbage", "empty"} \/ proc[p].sess.kind = "jwt"
    /\ LET tok == Tamper(proc[p].sess, mode)
           r == [Begin(p, "validate_token") EXCEPT !.presented = tok]
       IN  proc' = [proc EXCEPT ![p] = Finish(r, ValidateToken(tok, now, inclusive))]
    /\ UNCHANGED <<playlistVars, users, passwordResetStore, now, ticks, nextToken, serverUp, hist>>

----------------------------------------------------------------------------
(* middleware.AuthMiddleware, middleware.AdminMiddleware and the routes.      *)
(* The requests are those the application-wide middleware of main.go (rate   *)
(* limiter, RequestValidator) has let through.                               *)

StatusForbidden == 403

\* The Authorization header as strings.Split(authHeader, " ") sees it: the
\* number of parts, the first part and the second.  parts = 0 is no header.
NoHeader == [parts |-> 0, scheme |-> "", token |-> NoSession]

HeaderForms == {"none", "bare", "basic", "lower", "three", "bearer"}

\* The headers a client holding token held can send: none, "Bearer",
\* "Basic <held>", "bearer <held>", "Bearer <held> x", and "Bearer <t>" for
\* every t it can make of held.
HeaderInputs ==
    {<<"none", "empty">>, <<"bare", "empty">>, <<"basic", "asis">>,
     <<"lower", "asis">>, <<"three", "asis">>}
    \cup {<<"bearer", m>> : m \in TamperModes}

Header(form, tok) ==
    CASE form = "none"  -> NoHeader
      [] form = "bare"  -> [parts |-> 1, scheme |-> "Bearer", token |-> NoSession]
      [] form = "basic" -> [parts |-> 2, scheme |-> "Basic", token |-> tok]
      [] form = "lower" -> [parts |-> 2, scheme |-> "bearer", token |-> tok]
      [] form = "three" -> [parts |-> 3, scheme |-> "Bearer", token |-> tok]
      [] OTHER          -> [parts |-> 2, scheme |-> "Bearer", token |-> tok]

Reject(status, message) ==
    [NoResponse EXCEPT !.status = status, !.message = message]

\* c.Next(): the request goes on with these values in its context.
Continue(locals) == [NoResponse EXCEPT !.handler = TRUE, !.locals = locals]

\* Mutant of AuthMiddleware: the scheme is compared without regard to case.
AuthMiddlewareAnyCase(h, t, inclusive) ==
    IF h.parts = 0
    THEN Reject(StatusUnauthorized, "Authentication required")
    ELSE IF h.parts # 2 \/ h.scheme \notin {"Bearer", "bearer"}
    THEN Reject(StatusUnauthorized, "Invalid authorization format")
    ELSE IF ~ValidateToken(h.token, t, inclusive).ok
    THEN Reject(StatusUnauthorized, "Invalid or expired token")
    ELSE Continue(ValidateToken(h.token, t, inclusive).claims)

\* AuthMiddleware on a request with header h at time t.  (Every token of the
\* model carries a numeric user_id, so the "Invalid token" answer for a
\* user_id claim of another type has no case here.)
AuthMiddleware(h, t, inclusive) ==
    IF h.parts = 0
    THEN Reject(StatusUnauthorized, "Authentication required")
    ELSE IF h.parts # 2 \/ h.scheme # "Bearer"
    THEN Reject(StatusUnauthorized, "Invalid authorization format")
    ELSE IF ~ValidateToken(h.token, t, inclusive).ok
    THEN Reject(StatusUnauthorized, "Invalid or expired token")
    ELSE Continue(ValidateToken(h.token, t, inclusive).claims)

\* Mutant of AdminMiddleware: the role is read from the users table.
AdminMiddlewareFromStore(ctx) ==
    IF ~(ctx.locals.user_id \in UserIds /\ users[ctx.locals.user_id].is_admin)
    THEN Reject(StatusForbidden, "Admin access required")
    ELSE ctx

\* Mutant of AdminMiddleware: is_admin is not looked at.
AdminMiddlewareOpen(ctx) == ctx

\* AdminMiddleware on a request the earlier middleware let through.
AdminMiddleware(ctx) ==
    IF ~ctx.locals.is_admin
    THEN Reject(StatusForbidden, "Admin access required")
    ELSE ctx

\* api.Group("", AuthMiddleware): the routes registered after it under /api.
ServeProtected(h, t, inclusive) == AuthMiddleware(h, t, inclusive)

\* api.Group("/admin", AuthMiddleware, AdminMiddleware), registered after the
\* protected group, whose middleware matches /api/admin as well.
ServeAdmin(h, t, inclusive) ==
    LET first == AuthMiddleware(h, t, inclusive)
        second == AuthMiddleware(h, t, inclusive)
    IN  IF ~first.handler THEN first
        ELSE IF ~second.handler THEN second
        ELSE AdminMiddleware(second)

\* auth.Post("/logout", authCtrl.Logout): registered before any middleware;
\* the handler answers 200 whatever the request carries.
ServeLogout(h) ==
    [NoResponse EXCEPT !.status = StatusOK, !.message = "logout successful",
                       !.handler = TRUE]

\* The header connection p sends for the input <<form, mode>>.
HeaderOf(p, hin) == Header(hin[1], Tamper(proc[p].sess, hin[2]))

CanSend(p, hin) == hin[2] \in {"garbage", "empty"} \/ proc[p].sess.kind = "jwt"

\* A finished HTTP request: the client still holds its token.
FinishHttp(p, op, response) ==
    [IdleProc EXCEPT !.pc = "done", !.op = op, !.sess = proc[p].sess,
                     !.http = response]

ProtectedRoute(p, hin, inclusive) ==
    /\ Ready(p)
    /\ CanSend(p, hin)
    /\ proc' = [proc EXCEPT ![p] =
            FinishHttp(p, "protected", ServeProtected(HeaderOf(p, hin), now, inclusive))]
    /\ UNCHANGED <<playlistVars, users, passwordResetStore, now, ticks, nextToken, serverUp, hist>>

AdminRoute(p, hin, inclusive) ==
    /\ Ready(p)
    /\ CanSend(p, hin)
    /\ proc' = [proc EXCEPT ![p] =
            FinishHttp(p, "admin", ServeAdmin(HeaderOf(p, hin), now, inclusive))]
    /\ UNCHANGED <<playlistVars, users, passwordResetStore, now, ticks, nextToken, serverUp, hist>>

\* AuthController.Logout.  Nothing is stored server-side; the client may keep
\* a copy of its token.
Logout(p, hin) ==
    /\ Ready(p)
    /\ CanSend(p, hin)
    /\ proc' = [proc EXCEPT ![p] = FinishHttp(p, "logout", ServeLogout(HeaderOf(p, hin)))]
    /\ UNCHANGED <<playlistVars, users, passwordResetStore, now, ticks, nextToken, serverUp, hist>>

\* UPDATE users SET is_admin = 1 WHERE username = ...: how the README makes an
\* administrator, directly on the database.
GrantAdmin(i) ==
    /\ serverUp
    /\ i \in UserIds
    /\ ~users[i].is_admin
    /\ users' = [users EXCEPT ![i].is_admin = TRUE]
    /\ UNCHANGED <<playlistVars, passwordResetStore, now, ticks, nextToken, serverUp, proc, hist>>

----------------------------------------------------------------------------
(* The reset-token store: a Go map without a lock *)

\* Mutant of MapSet: an entry that exists is not overwritten.
MapSetKeepOld(m, k, v) ==
    IF k \in DOMAIN m THEN m
    ELSE [x \in DOMAIN m \cup {k} |-> IF x = k THEN v ELSE m[x]]

MapSet(m, k, v) == [x \in DOMAIN m \cup {k} |-> IF x = k THEN v ELSE m[x]]
\* Mutant of MapDelete: nothing is deleted.
MapDeleteNothing(m, k) == m

MapDelete(m, k) == [x \in DOMAIN m \ {k} |-> m[x]]

\* The loop of ValidateResetToken over the map: the entries holding token.
EntriesWith(token) ==
    {e \in DOMAIN passwordResetStore : passwordResetStore[e].Token = token}

\* Mutant of ValidateResetTokenResult: every token issued is looked up by its
\* own value and accepted until its own expiry, whatever the map holds.
ValidateResetTokenResultByToken(token, t) ==
    IF token \notin 1..Len(hist.rt)
    THEN Fail("invalid reset token")
    ELSE IF t > hist.rt[token].at + ResetTokenTTL
    THEN Fail("reset token has expired")
    ELSE [NoResult EXCEPT !.ok = TRUE, !.email = hist.rt[token].email]

\* What ValidateResetToken(token) returns at time t.
ValidateResetTokenResult(token, t) ==
    IF EntriesWith(token) = {}
    THEN Fail("invalid reset token")
    ELSE LET e == CHOOSE x \in EntriesWith(token) : TRUE
         IN  IF t > passwordResetStore[e].ExpiresAt
             THEN Fail("reset token has expired")
             ELSE [NoResult EXCEPT !.ok = TRUE, !.email = e]

\* Mutant of StoreAfterValidate: a token that validates is deleted as well.
StoreAfterValidateConsumes(token, t) ==
    IF EntriesWith(token) = {}
    THEN passwordResetStore
    ELSE LET e == CHOOSE x \in EntriesWith(token) : TRUE
         IN  [x \in DOMAIN passwordResetStore \ {e} |-> passwordResetStore[x]]

\* The map after ValidateResetToken(token) at time t: an expired hit is deleted.
StoreAfterValidate(token, t) ==
    IF EntriesWith(token) = {}
    THEN passwordResetStore
    ELSE LET e == CHOOSE x \in EntriesWith(token) : TRUE
         IN  IF t > passwordResetStore[e].ExpiresAt
             THEN MapDelete(passwordResetStore, e)
             ELSE passwordResetStore

\* Program points inside a map operation that follows another shared access
\* of the same request (the first map operation of a request is taken at the
\* step the request starts with).
StoreAccessPcs == {"rpr_rollback", "rp_consume"}

InStore(p) == proc[p].pc \in StoreAccessPcs

\* Unsynchronised writes to a Go map by two goroutines: the runtime may detect
\* them and abort the process ("fatal error: concurrent map writes").
ConcurrentMapFault ==
    /\ serverUp
    /\ \E p, q \in Procs : p # q /\ InStore(p) /\ InStore(q)
    /\ serverUp' = FALSE
    /\ UNCHANGED <<playlistVars, users, passwordResetStore, now, ticks, nextToken, proc, hist>>

----------------------------------------------------------------------------
(* AuthService.RequestPasswordReset *)

\* Mutant of RequestPasswordReset: GenerateSecureToken repeats the first token
\* it ever returned.
RequestPasswordResetRepeatsToken(p, e) ==
    /\ Ready(p)
    /\ nextToken <= MaxResetTokens
    /\ LET r == [Begin(p, "request_reset") EXCEPT !.email = e]
           tok == IF nextToken > 1 THEN 1 ELSE nextToken
           h1 == IF tok = nextToken
                 THEN Append(hist.rt, NewTokenHist(e, now))
                 ELSE hist.rt
       IN  IF FindByEmail(e) = NoUser
           THEN /\ proc' = [proc EXCEPT ![p] =
                        FinishReset(r, [NoResult EXCEPT !.ok = TRUE])]
                /\ UNCHANGED <<playlistVars, passwordResetStore, nextToken, hist>>
           ELSE /\ passwordResetStore' =
                      [x \in DOMAIN passwordResetStore \cup {e} |->
                          IF x = e
                          THEN [Token |-> tok, Email |-> e,
                                ExpiresAt |-> now + ResetTokenTTL]
                          ELSE passwordResetStore[x]]
                /\ hist' = [hist EXCEPT !.rt = h1]
                /\ proc' = [proc EXCEPT ![p] =
                        [r EXCEPT !.pc = "rpr_mail", !.rtok = tok]]
                /\ nextToken' = nextToken + 1
    /\ UNCHANGED <<playlistVars, users, now, ticks, serverUp>>

\* The user lookup (an unknown e-mail returns nil at once), GenerateSecureToken
\* and passwordResetStore[email] = {token, email, now + 15 min}.
RequestPasswordReset(p, e) ==
    /\ Ready(p)
    /\ nextToken <= MaxResetTokens
    /\ LET r == [Begin(p, "request_reset") EXCEPT !.email = e]
           old == IF e \in DOMAIN passwordResetStore
                  THEN passwordResetStore[e].Token ELSE NoResetToken
           h1 == Append(hist.rt, NewTokenHist(e, now))
       IN  IF FindByEmail(e) = NoUser
           THEN /\ proc' = [proc EXCEPT ![p] =
                        FinishReset(r, [NoResult EXCEPT !.ok = TRUE])]
                /\ UNCHANGED <<playlistVars, passwordResetStore, nextToken, hist>>
           ELSE /\ passwordResetStore' = MapSet(passwordResetStore, e,
                        [Token |-> nextToken, Email |-> e,
                         ExpiresAt |-> now + ResetTokenTTL])
                /\ hist' = [hist EXCEPT !.rt =
                        IF old = NoResetToken THEN h1
                        ELSE [h1 EXCEPT ![old].replaced = TRUE]]
                /\ proc' = [proc EXCEPT ![p] =
                        [r EXCEPT !.pc = "rpr_mail", !.rtok = nextToken]]
                /\ nextToken' = nextToken + 1
    /\ UNCHANGED <<playlistVars, users, now, ticks, serverUp>>

\* SendPasswordResetEmail: delivered, or an error.
RprMail(p, delivered) ==
    /\ serverUp
    /\ proc[p].pc = "rpr_mail"
    /\ IF delivered
       THEN /\ proc' = [proc EXCEPT ![p] =
                    FinishReset(proc[p], [NoResult EXCEPT !.ok = TRUE])]
            /\ hist' = [hist EXCEPT !.rt[proc[p].rtok].sent = TRUE]
       ELSE /\ proc' = [proc EXCEPT ![p].pc = "rpr_rollback"]
            /\ hist' = hist
    /\ UNCHANGED <<playlistVars, users, passwordResetStore, now, ticks, nextToken, serverUp>>

\* Mutant of RprRollback: the entry is deleted only while it still holds the
\* token this request stored.
RprRollbackOwnToken(p) ==
    /\ serverUp
    /\ proc[p].pc = "rpr_rollback"
    /\ passwordResetStore' =
          IF /\ proc[p].email \in DOMAIN passwordResetStore
             /\ passwordResetStore[proc[p].email].Token = proc[p].rtok
          THEN [x \in DOMAIN passwordResetStore \ {proc[p].email} |->
                   passwordResetStore[x]]
          ELSE passwordResetStore
    /\ proc' = [proc EXCEPT ![p] =
            FinishReset(proc[p], Fail("failed to send reset email"))]
    /\ UNCHANGED <<playlistVars, users, now, ticks, nextToken, serverUp, hist>>

\* delete(passwordResetStore, email) after a failed dispatch.
RprRollback(p) ==
    /\ serverUp
    /\ proc[p].pc = "rpr_rollback"
    /\ passwordResetStore' = MapDelete(passwordResetStore, proc[p].email)
    /\ proc' = [proc EXCEPT ![p] =
            FinishReset(proc[p], Fail("failed to send reset email"))]
    /\ UNCHANGED <<playlistVars, users, now, ticks, nextToken, serverUp, hist>>

----------------------------------------------------------------------------
(* AuthController.ForgotPassword: POST /api/auth/forgot-password *)

StatusBadRequest == 400

\* req.Email as the characters the body carries.
EmailBodies ==
    { <<>>,
      <<"a", "@", "b">>,
      <<"@", ".", "a">>,
      <<"a", "@", "b", "c">>,
      <<"a", "b", ".", "c", "d">>,
      <<"a", "l", "@", "x", ".", "i", "o">>,
      <<"n", "o", "b", "o", "d", "y", "@", "x", ".", "i", "o">> }

RECURSIVE Join(_)
Join(chars) == IF chars = <<>> THEN "" ELSE Head(chars) \o Join(Tail(chars))

Contains(chars, c) == \E i \in 1..Len(chars) : chars[i] = c

isValidEmail(chars) ==
    /\ Len(chars) > 3
    /\ Len(chars) < 255
    /\ Contains(chars, "@")
    /\ Contains(chars, ".")

\* The handler: a body that does not parse, or an empty or malformed e-mail, is
\* answered at once; otherwise RequestPasswordReset(req.Email) is called.
ForgotPassword(p, parsed, body) ==
    IF ~parsed \/ body = <<>> \/ ~isValidEmail(body)
    THEN /\ Ready(p)
         /\ proc' = [proc EXCEPT ![p] =
                 FinishReset(Begin(p, "forgot_password"),
                     Fail(IF ~parsed THEN "Invalid request format"
                          ELSE "Valid email address is required"))]
         /\ UNCHANGED <<playlistVars, users, passwordResetStore, now, ticks, nextToken, serverUp,
                        hist>>
    ELSE RequestPasswordReset(p, Join(body))

GenericAck ==
    [status |-> StatusOK, error |-> FALSE,
     message |-> "If your email is registered, you will receive a password reset link shortly."]

\* Mutant of ForgotPasswordResponse: a failure of the service is reported.
ForgotPasswordResponseLeaky(r) ==
    IF r.op = "forgot_password"
    THEN [status |-> StatusBadRequest, error |-> TRUE, message |-> r.res.err]
    ELSE IF ~r.res.ok
    THEN [status |-> StatusBadRequest, error |-> TRUE, message |-> r.res.err]
    ELSE GenericAck

\* The HTTP answer of a finished forgot-password request r: the error of the
\* service call is logged and not reported.
ForgotPasswordResponse(r) ==
    IF r.op = "forgot_password"
    THEN [status |-> StatusBadRequest, error |-> TRUE, message |-> r.res.err]
    ELSE GenericAck

----------------------------------------------------------------------------
(* AuthService.ValidateResetToken *)

ValidateResetToken(p, token) ==
    /\ Ready(p)
    /\ passwordResetStore' = StoreAfterValidate(token, now)
    /\ proc' = [proc EXCEPT ![p] =
            FinishReset([Begin(p, "validate_reset") EXCEPT !.rtok = token],
                        ValidateResetTokenResult(token, now))]
    /\ UNCHANGED <<playlistVars, users, now, ticks, nextToken, serverUp, hist>>

----------------------------------------------------------------------------
(* AuthController.ValidateResetToken and AuthController.ResetPassword: the    *)
(* answer to a request whose fields passed the controller's own checks       *)

\* GET /api/auth/validate-reset-token: any error of the service is answered
\* with one message.
ValidateResetTokenResponse(result) ==
    IF ~result.ok
    THEN [status |-> StatusBadRequest, error |-> TRUE,
          message |-> "Invalid or expired reset token"]
    ELSE [status |-> StatusOK, error |-> FALSE, message |-> result.email]

\* POST /api/auth/reset-password: the error of the service is sent as it is.
ResetPasswordResponse(result) ==
    IF ~result.ok
    THEN [status |-> StatusBadRequest, error |-> TRUE, message |-> result.err]
    ELSE [status |-> StatusOK, error |-> FALSE,
          message |-> "Password reset successful. Please login with your new password."]

\* The HTTP answer of a finished validate-reset-token or reset-password request.
ResetEndpointResponse(r) ==
    IF r.op = "validate_reset"
    THEN ValidateResetTokenResponse(r.res)
    ELSE ResetPasswordResponse(r.res)

----------------------------------------------------------------------------
(* AuthService.ResetPassword *)

\* ValidateResetToken, the password policy and the user lookup.
ResetPassword(p, token, pw) ==
    /\ Ready(p)
    /\ LET r == [Begin(p, "reset_password") EXCEPT !.rtok = token, !.password = pw]
           v == ValidateResetTokenResult(token, now)
       IN  /\ passwordResetStore' = StoreAfterValidate(token, now)
           /\ proc' = [proc EXCEPT ![p] =
                   IF ~v.ok THEN FinishReset(r, v)
                   ELSE IF Len(pw) < MinPasswordLen
                   THEN FinishReset(r, Fail("password must be at least 8 characters"))
                   ELSE IF FindByEmail(v.email) = NoUser
                   THEN FinishReset(r, Fail("user not found"))
                   ELSE [r EXCEPT !.pc = "rp_update", !.email = v.email,
                                  !.uid = FindByEmail(v.email)]]
    /\ UNCHANGED <<playlistVars, users, now, ticks, nextToken, serverUp, hist>>

\* UPDATE users SET password_hash = ? WHERE id = ?
\* (oldpw: the password the row held before, kept for the properties.)
RpUpdate(p) ==
    /\ serverUp
    /\ proc[p].pc = "rp_update"
    /\ users' = [users EXCEPT ![proc[p].uid].password_hash =
            GenerateFromPassword(proc[p].password, BcryptResetCost)]
    /\ proc' = [proc EXCEPT ![p].pc = "rp_consume",
                            ![p].oldpw = users[proc[p].uid].password_hash.of]
    /\ hist' = [hist EXCEPT !.pwChanged = @ \cup {proc[p].uid}]
    /\ UNCHANGED <<playlistVars, passwordResetStore, now, ticks, nextToken, serverUp>>

\* The failures ResetPassword can return after the token validated and the
\* password passed the policy: the SELECT, bcrypt or the UPDATE returns an
\* error.  Each returns at once.
ResetFaults ==
    {"user not found", "failed to process password", "failed to update password"}

\* Mutant of RpFault: the failing call removes the token all the same.
RpFaultConsumes(p, msg) ==
    /\ serverUp
    /\ proc[p].pc = "rp_update"
    /\ passwordResetStore' = MapDelete(passwordResetStore, proc[p].email)
    /\ proc' = [proc EXCEPT ![p] = FinishReset(proc[p], Fail(msg))]
    /\ UNCHANGED <<playlistVars, users, now, ticks, nextToken, serverUp, hist>>

RpFault(p, msg) ==
    /\ serverUp
    /\ proc[p].pc = "rp_update"
    /\ proc' = [proc EXCEPT ![p] = FinishReset(proc[p], Fail(msg))]
    /\ UNCHANGED <<playlistVars, users, passwordResetStore, now, ticks, nextToken, serverUp, hist>>

\* Mutant of RpConsume: the entry is deleted only while it still holds the
\* token this request validated.
RpConsumeOwnToken(p) ==
    /\ serverUp
    /\ proc[p].pc = "rp_consume"
    /\ passwordResetStore' =
          IF /\ proc[p].email \in DOMAIN passwordResetStore
             /\ passwordResetStore[proc[p].email].Token = proc[p].rtok
          THEN [x \in DOMAIN passwordResetStore \ {proc[p].email} |->
                   passwordResetStore[x]]
          ELSE passwordResetStore
    /\ proc' = [proc EXCEPT ![p] =
            FinishReset(proc[p], [NoResult EXCEPT !.ok = TRUE,
                                                  !.email = proc[p].email,
                                                  !.user = proc[p].uid])]
    /\ hist' = [hist EXCEPT !.rt[proc[p].rtok].uses = @ + 1]
    /\ UNCHANGED <<playlistVars, users, now, ticks, nextToken, serverUp>>

\* delete(passwordResetStore, email) and the nil return.
RpConsume(p) ==
    /\ serverUp
    /\ proc[p].pc = "rp_consume"
    /\ passwordResetStore' = MapDelete(passwordResetStore, proc[p].email)
    /\ proc' = [proc EXCEPT ![p] =
            FinishReset(proc[p], [NoResult EXCEPT !.ok = TRUE,
                                                  !.email = proc[p].email,
                                                  !.user = proc[p].uid])]
    /\ hist' = [hist EXCEPT !.rt[proc[p].rtok].uses = @ + 1]
    /\ UNCHANGED <<playlistVars, users, now, ticks, nextToken, serverUp>>

----------------------------------------------------------------------------
(* AuthService.GetUserByID, and LoginUser when its UPDATE fails *)

\* SELECT ... FROM users WHERE id = ?: the row, or "user not found".
GetUserByID(p, userID) ==
    /\ Ready(p)
    /\ proc' = [proc EXCEPT ![p] =
            Finish([Begin(p, "get_user") EXCEPT !.uid = userID],
                   IF userID \in UserIds
                   THEN [NoResult EXCEPT !.ok = TRUE, !.user = userID,
                                         !.email = users[userID].email]
                   ELSE Fail("user not found"))]
    /\ UNCHANGED <<playlistVars, users, passwordResetStore, now, ticks, nextToken, serverUp, hist>>

\* LoginUser when the UPDATE of last_login returns an error: the error is
\* logged as a warning and the login goes on to GenerateToken.
LoginUserUpdateFails(p, ident, pw) ==
    /\ Ready(p)
    /\ LoginOutcome(ident, pw, now).ok
    /\ LET out == LoginOutcome(ident, pw, now)
           r == [Begin(p, "login") EXCEPT !.username = ident, !.password = pw]
       IN  proc' = [proc EXCEPT ![p] = Finish([r EXCEPT !.sess = out.token], out)]
    /\ UNCHANGED <<playlistVars, users, passwordResetStore, now, ticks, nextToken, serverUp, hist>>

----------------------------------------------------------------------------
(* PlaylistService: each SQL statement is one step *)

MaxPlaylists == 1
MaxQueue == 2

PlaylistUsers == {1, 2}
PlaylistNames == {"mix", ""}
Songs == {1, 2}
PlaylistIds == 1..MaxPlaylists

\* Whether the SQLite build enforces FOREIGN KEY clauses (the connection string
\* does not say; the library's default depends on how it was built).
SqliteBuilds == BOOLEAN

\* The rows of playlist_songs for (playlist_id, song_id).
SongRows(playlistID, songID) ==
    {k \in 1..Len(playlist_songs) :
        /\ playlist_songs[k].playlist_id = playlistID
        /\ playlist_songs[k].song_id = songID}

\* SELECT MAX(queue_number) ... + 1, or 0 for a playlist without songs.
NextQueueNumber(playlistID) ==
    LET qs == {playlist_songs[k].queue_number :
                 k \in {j \in 1..Len(playlist_songs) :
                          playlist_songs[j].playlist_id = playlistID}}
    IN  IF qs = {} THEN 0 ELSE (CHOOSE q \in qs : \A x \in qs : x <= q) + 1

CreatePlaylist(p, userID, name, fk) ==
    /\ Ready(p)
    /\ playlistSeq < MaxPlaylists
    /\ LET r == [Begin(p, "create_playlist") EXCEPT !.uid = userID]
           id == playlistSeq + 1
       IN  IF name = ""
           THEN /\ proc' = [proc EXCEPT ![p] =
                        FinishReset(r, Fail("enter valid playlist name"))]
                /\ UNCHANGED playlistVars
           ELSE IF \/ \E i \in DOMAIN playlists :
                        playlists[i].user_id = userID /\ playlists[i].name = name
                   \/ fk /\ userID \notin UserIds
           THEN /\ proc' = [proc EXCEPT ![p] =
                        FinishReset(r, Fail("Playlist already exists"))]
                /\ UNCHANGED playlistVars
           ELSE /\ playlists' = [x \in DOMAIN playlists \cup {id} |->
                                   IF x = id THEN [user_id |-> userID, name |-> name]
                                   ELSE playlists[x]]
                /\ playlistSeq' = id
                /\ proc' = [proc EXCEPT ![p] =
                        FinishReset(r,
                               [NoResult EXCEPT !.ok = TRUE, !.user = userID])]
                /\ UNCHANGED playlist_songs
    /\ UNCHANGED <<users, passwordResetStore, now, ticks, nextToken, serverUp, hist>>

GetPlaylistByID(p, playlistID, userID) ==
    /\ Ready(p)
    /\ LET r == [Begin(p, "get_playlist") EXCEPT !.uid = userID,
                                                  !.playlist = playlistID]
       IN  proc' = [proc EXCEPT ![p] =
               IF /\ playlistID \in DOMAIN playlists
                  /\ playlists[playlistID].user_id = userID
               THEN FinishReset(r, [NoResult EXCEPT !.ok = TRUE, !.user = userID])
               ELSE FinishReset(r, Fail("no playlist found"))]
    /\ UNCHANGED <<playlistVars, users, passwordResetStore, now, ticks, nextToken,
                   serverUp, hist>>

\* AddSong up to its INSERT: the owner check, the COUNT and the MAX query.
AddSong(p, playlistID, songID, userID) ==
    /\ Ready(p)
    /\ NextQueueNumber(playlistID) <= MaxQueue
    /\ LET r == [Begin(p, "add_song") EXCEPT !.uid = userID,
                     !.playlist = playlistID, !.song = songID]
       IN  proc' = [proc EXCEPT ![p] =
               IF playlistID \notin DOMAIN playlists
               THEN FinishReset(r, Fail("no playlist found"))
               ELSE IF playlists[playlistID].user_id # userID
               THEN FinishReset(r, Fail("unauthorized"))
               ELSE IF SongRows(playlistID, songID) # {}
               THEN FinishReset(r, Fail("Song already in the playlist"))
               ELSE [r EXCEPT !.pc = "as_insert",
                              !.queue = NextQueueNumber(playlistID)]]
    /\ UNCHANGED <<playlistVars, users, passwordResetStore, now, ticks, nextToken,
                   serverUp, hist>>

\* INSERT INTO playlist_songs ...: UNIQUE(playlist_id, song_id), and the
\* foreign key to playlists where it is enforced.
AddSongInsert(p, fk) ==
    /\ serverUp
    /\ proc[p].pc = "as_insert"
    /\ LET r == proc[p]
       IN  IF SongRows(r.playlist, r.song) # {}
           THEN /\ proc' = [proc EXCEPT ![p] =
                        FinishReset(r, Fail("UNIQUE constraint failed"))]
                /\ UNCHANGED playlist_songs
           ELSE IF fk /\ r.playlist \notin DOMAIN playlists
           THEN /\ proc' = [proc EXCEPT ![p] =
                        FinishReset(r, Fail("FOREIGN KEY constraint failed"))]
                /\ UNCHANGED playlist_songs
           ELSE /\ playlist_songs' = Append(playlist_songs,
                        [playlist_id |-> r.playlist, song_id |-> r.song,
                         queue_number |-> r.queue])
                /\ proc' = [proc EXCEPT ![p] = FinishReset(r, [NoResult EXCEPT !.ok = TRUE])]
    /\ UNCHANGED <<playlists, playlistSeq, users, passwordResetStore, now, ticks,
                   nextToken, serverUp, hist>>

\* RemoveSong up to its DELETE: the owner check.
RemoveSong(p, playlistID, songID, userID) ==
    /\ Ready(p)
    /\ LET r == [Begin(p, "remove_song") EXCEPT !.uid = userID,
                     !.playlist = playlistID, !.song = songID]
       IN  proc' = [proc EXCEPT ![p] =
               IF playlistID \notin DOMAIN playlists
               THEN FinishReset(r, Fail("no playlist found"))
               ELSE IF playlists[playlistID].user_id # userID
               THEN FinishReset(r, Fail("unauthorized"))
               ELSE [r EXCEPT !.pc = "rs_delete"]]
    /\ UNCHANGED <<playlistVars, users, passwordResetStore, now, ticks, nextToken,
                   serverUp, hist>>

\* DELETE FROM playlist_songs WHERE playlist_id = ? AND song_id = ?
RemoveSongDelete(p) ==
    /\ serverUp
    /\ proc[p].pc = "rs_delete"
    /\ LET r == proc[p]
           keep(row) == ~(row.playlist_id = r.playlist /\ row.song_id = r.song)
       IN  /\ playlist_songs' = SelectSeq(playlist_songs, keep)
           /\ proc' = [proc EXCEPT ![p] =
                   IF SongRows(r.playlist, r.song) = {}
                   THEN FinishReset(r, Fail("song not found in playlist"))
                   ELSE FinishReset(r, [NoResult EXCEPT !.ok = TRUE])]
    /\ UNCHANGED <<playlists, playlistSeq, users, passwordResetStore, now, ticks,
                   nextToken, serverUp, hist>>

\* Mutant of DeletePlaylist: DELETE FROM playlists WHERE id = ?, any caller.
DeletePlaylistAnyUser(p, playlistID, userID, fk) ==
    /\ Ready(p)
    /\ LET r == [Begin(p, "delete_playlist") EXCEPT !.uid = userID,
                                                     !.playlist = playlistID]
           keep(row) == row.playlist_id # playlistID
       IN  IF playlistID \in DOMAIN playlists
           THEN /\ playlists' = [x \in DOMAIN playlists \ {playlistID} |-> playlists[x]]
                /\ playlist_songs' = IF fk THEN SelectSeq(playlist_songs, keep) ELSE playlist_songs
                /\ proc' = [proc EXCEPT ![p] = FinishReset(r, [NoResult EXCEPT !.ok = TRUE])]
           ELSE /\ proc' = [proc EXCEPT ![p] = FinishReset(r, Fail("no playlist found"))]
                /\ UNCHANGED <<playlists, playlist_songs>>
    /\ UNCHANGED <<playlistSeq, users, passwordResetStore, now, ticks, nextToken,
                   serverUp, hist>>

\* DELETE FROM playlists WHERE id = ? AND user_id = ?; the songs of the
\* playlist go with it (ON DELETE CASCADE) where foreign keys are enforced.
DeletePlaylist(p, playlistID, userID, fk) ==
    /\ Ready(p)
    /\ LET r == [Begin(p, "delete_playlist") EXCEPT !.uid = userID,
                                                     !.playlist = playlistID]
           keep(row) == row.playlist_id # playlistID
       IN  IF /\ playlistID \in DOMAIN playlists
              /\ playlists[playlistID].user_id = userID
           THEN /\ playlists' = [x \in DOMAIN playlists \ {playlistID} |-> playlists[x]]
                /\ playlist_songs' = IF fk THEN SelectSeq(playlist_songs, keep) ELSE playlist_songs
                /\ proc' = [proc EXCEPT ![p] = FinishReset(r, [NoResult EXCEPT !.ok = TRUE])]
           ELSE /\ proc' = [proc EXCEPT ![p] = FinishReset(r, Fail("no playlist found"))]
                /\ UNCHANGED <<playlists, playlist_songs>>
    /\ UNCHANGED <<playlistSeq, users, passwordResetStore, now, ticks, nextToken,
                   serverUp, hist>>

----------------------------------------------------------------------------
(* The clock *)

Tick(d) ==
    /\ ticks < MaxTicks
    /\ now' = now + d
    /\ ticks' = ticks + 1
    /\ UNCHANGED <<playlistVars, users, passwordResetStore, nextToken, serverUp, proc, hist>>

----------------------------------------------------------------------------
(* Specifications *)

Init ==
    /\ users = <<>>
    /\ passwordResetStore = <<>>
    /\ now = 0
    /\ ticks = 0
    /\ nextToken = 1
    /\ serverUp = TRUE
    /\ proc = [p \in Procs |-> IdleProc]
    /\ hist = InitHist
    /\ playlists = <<>>
    /\ playlist_songs = <<>>
    /\ playlistSeq = 0

\* Registration alone, every request shape, two connections.
RegisterPasswords == Passwords \cup {"", "passwor"}

NextRegister ==
    \/ \E p \in Procs, u \in Usernames, e \in Emails, pw \in RegisterPasswords :
           StartRegister(p, u, e, pw)
    \/ \E p \in Procs : RegInsert(p)

SpecRegister == Init /\ [][NextRegister]_vars

\* Registration and login.
NextLogin ==
    \/ \E p \in Procs, u \in Usernames, e \in Emails, pw \in ValidPasswords :
           StartRegister(p, u, e, pw)
    \/ \E p \in Procs : RegInsert(p)
    \/ \E p \in Procs, ident \in Usernames \cup Emails \cup {"nobody"},
          pw \in ValidPasswords : LoginUser(p, ident, pw)

SpecLogin == Init /\ [][NextLogin]_vars

\* Sessions: login, session-token validation, the clock.
NextSession ==
    \/ \E p \in Procs, pw \in ValidPasswords :
           StartRegister(p, "alice", "al@x.io", pw)
    \/ \E p \in Procs : RegInsert(p)
    \/ \E p \in Procs, pw \in ValidPasswords : LoginUser(p, "alice", pw)
    \/ \E p \in Procs, mode \in TamperModes, inclusive \in JwtBuilds :
           ValidateTokenCall(p, mode, inclusive)
    \/ \E d \in {1, SessionTTL} : Tick(d)

SpecSession == Init /\ [][NextSession]_vars

\* The password-reset flow on two connections, for one registered account and
\* one address nobody registered.
ResetTokenInputs == 0..(nextToken - 1)

NextReset ==
    \/ \E p \in Procs : StartRegister(p, "alice", "al@x.io", "password")
    \/ \E p \in Procs : RegInsert(p)
    \/ \E p \in Procs, e \in {"al@x.io", "nobody@x.io"} : RequestPasswordReset(p, e)
    \/ \E p \in Procs, delivered \in BOOLEAN : RprMail(p, delivered)
    \/ \E p \in Procs : RprRollback(p)
    \/ \E p \in Procs, t \in ResetTokenInputs : ValidateResetToken(p, t)
    \/ \E p \in Procs, t \in ResetTokenInputs, pw \in Passwords :
           ResetPassword(p, t, pw)
    \/ \E p \in Procs : RpUpdate(p)
    \/ \E p \in Procs, msg \in ResetFaults : RpFault(p, msg)
    \/ \E p \in Procs : RpConsume(p)
    \/ \E d \in {1, ResetTokenTTL} : Tick(d)
    \/ ConcurrentMapFault

SpecReset == Init /\ [][NextReset]_vars

\* The routes behind the middleware, and logout, for one account.
NextGate ==
    \/ \E p \in Procs : StartRegister(p, "alice", "al@x.io", "password")
    \/ \E p \in Procs : RegInsert(p)
    \/ \E i \in UserIds : GrantAdmin(i)
    \/ \E p \in Procs : LoginUser(p, "alice", "password")
    \/ \E p \in Procs, hin \in HeaderInputs, inclusive \in JwtBuilds :
           ProtectedRoute(p, hin, inclusive)
    \/ \E p \in Procs, hin \in HeaderInputs, inclusive \in JwtBuilds :
           AdminRoute(p, hin, inclusive)
    \/ \E p \in Procs, hin \in HeaderInputs : Logout(p, hin)
    \/ Tick(SessionTTL)

SpecGate == Init /\ [][NextGate]_vars

\* A session across logout, further logins and a password reset of its user.
NextRevoke ==
    \/ \E p \in Procs : StartRegister(p, "alice", "al@x.io", "password")
    \/ \E p \in Procs : RegInsert(p)
    \/ \E p \in Procs, pw \in ValidPasswords : LoginUser(p, "alice", pw)
    \/ \E p \in Procs : Logout(p, <<"bearer", "asis">>)
    \/ \E p \in Procs, inclusive \in JwtBuilds : ValidateTokenCall(p, "asis", inclusive)
    \/ \E p \in Procs : RequestPasswordReset(p, "al@x.io")
    \/ \E p \in Procs : RprMail(p, TRUE)
    \/ \E p \in Procs, t \in ResetTokenInputs : ResetPassword(p, t, "passw0rd1")
    \/ \E p \in Procs : RpUpdate(p)
    \/ \E p \in Procs : RpConsume(p)
    \/ \E d \in {1, SessionTTL} : Tick(d)

SpecRevoke == Init /\ [][NextRevoke]_vars

\* The forgot-password endpoint on two connections, for one account.
NextForgot ==
    \/ \E p \in Procs : StartRegister(p, "alice", "al@x.io", "password")
    \/ \E p \in Procs : RegInsert(p)
    \/ \E p \in Procs, parsed \in BOOLEAN, body \in EmailBodies :
           ForgotPassword(p, parsed, body)
    \/ \E p \in Procs, delivered \in BOOLEAN : RprMail(p, delivered)
    \/ \E p \in Procs : RprRollback(p)
    \/ ConcurrentMapFault

SpecForgot == Init /\ [][NextForgot]_vars

\* One account through every operation of the auth core, with the operator's
\* grant of the administrator flag.
NextAccount ==
    \/ \E p \in Procs : StartRegister(p, "alice", "al@x.io", "password")
    \/ \E p \in Procs : RegInsert(p)
    \/ \E i \in UserIds : GrantAdmin(i)
    \/ \E p \in Procs, ident \in {"alice", "nobody"}, pw \in ValidPasswords :
           LoginUser(p, ident, pw)
    \/ \E p \in Procs, pw \in ValidPasswords : LoginUserUpdateFails(p, "alice", pw)
    \/ \E p \in Procs, i \in 1..2 : GetUserByID(p, i)
    \/ \E p \in Procs : ValidateTokenCall(p, "asis", TRUE)
    \/ \E p \in Procs : RequestPasswordReset(p, "al@x.io")
    \/ \E p \in Procs : RprMail(p, TRUE)
    \/ \E p \in Procs, t \in ResetTokenInputs : ValidateResetToken(p, t)
    \/ \E p \in Procs, t \in ResetTokenInputs : ResetPassword(p, t, "passw0rd1")
    \/ \E p \in Procs : RpUpdate(p)
    \/ \E p \in Procs : RpConsume(p)

SpecAccount == Init /\ [][NextAccount]_vars

\* The playlists of two users, on two connections.
NextPlaylist ==
    \/ \E p \in Procs, u \in PlaylistUsers, n \in PlaylistNames, fk \in SqliteBuilds :
           CreatePlaylist(p, u, n, fk)
    \/ \E p \in Procs, pl \in PlaylistIds, u \in PlaylistUsers :
           GetPlaylistByID(p, pl, u)
    \/ \E p \in Procs, pl \in PlaylistIds, s \in Songs, u \in PlaylistUsers :
           AddSong(p, pl, s, u)
    \/ \E p \in Procs, fk \in SqliteBuilds : AddSongInsert(p, fk)
    \/ \E p \in Procs, pl \in PlaylistIds, s \in Songs, u \in PlaylistUsers :
           RemoveSong(p, pl, s, u)
    \/ \E p \in Procs : RemoveSongDelete(p)
    \/ \E p \in Procs, pl \in PlaylistIds, u \in PlaylistUsers, fk \in SqliteBuilds :
           DeletePlaylist(p, pl, u, fk)

SpecPlaylist == Init /\ [][NextPlaylist]_vars

\* Every operation together.
Next ==
    \/ NextRegister \/ NextLogin \/ NextSession \/ NextReset
    \/ NextForgot \/ NextGate \/ NextRevoke \/ NextAccount
    \/ NextPlaylist

Spec == Init /\ [][Next]_vars

----------------------------------------------------------------------------
(* Properties *)

\* Connection p's request op returns in this step.
Returned(p, op) ==
    /\ proc'[p] # proc[p]
    /\ proc'[p].pc = "done"
    /\ proc'[p].op = op

RowsWithUsername(u) == {i \in UserIds : users[i].username = u}
RowsWithEmail(e) == {i \in UserIds : users[i].email = e}

ConflictError == Fail("username or email already exists")
AuthorizationFailed == Fail("authorization failed")

C3_ConcurrentRegistration ==
    /\ \A u \in Usernames : Cardinality(RowsWithUsername(u)) <= 1
    /\ \A p \in Procs :
         (proc[p].pc = "done" /\ proc[p].op = "register"
            /\ Len(proc[p].password) >= MinPasswordLen /\ ~proc[p].res.ok)
         => /\ proc[p].res = ConflictError
            /\ (RowsWithUsername(proc[p].username) # {}
                \/ RowsWithEmail(proc[p].email) # {})
    /\ \A p, q \in Procs :
         (p # q /\ proc[p].pc = "done" /\ proc[q].pc = "done"
            /\ proc[p].op = "register" /\ proc[q].op = "register"
            /\ proc[p].username = proc[q].username)
         => /\ ~(proc[p].res.ok /\ proc[q].res.ok)
            /\ (proc[p].res.ok /\ Len(proc[q].password) >= MinPasswordLen)
                 => proc[q].res = ConflictError
    /\ \A p, q \in Procs :
         (p # q /\ proc[p].pc = "reg_insert" /\ proc[q].pc = "done"
            /\ proc[q].op = "register" /\ proc[q].res.ok
            /\ proc[p].username = proc[q].username)
         => RowsWithUsername(proc[p].username) = {proc[q].res.user}

\* C3 witness: two registrations of one username with different e-mails have
\* both returned, one with the user and one with the conflict error.
C3_Witness ==
    \E p, q \in Procs :
        /\ p # q
        /\ proc[p].pc = "done" /\ proc[q].pc = "done"
        /\ proc[p].op = "register" /\ proc[q].op = "register"
        /\ proc[p].username = proc[q].username
        /\ proc[p].email # proc[q].email
        /\ proc[p].res.ok
        /\ proc[q].res = ConflictError
        /\ Len(users) = 1

\* C3 witness of the race itself: both requests are past the password check
\* and before the INSERT, with the username still free.
C3_RaceWitness ==
    \E p, q \in Procs :
        /\ p # q
        /\ proc[p].pc = "reg_insert" /\ proc[q].pc = "reg_insert"
        /\ proc[p].username = proc[q].username
        /\ RowsWithUsername(proc[p].username) = {}

\* C4: a login that fails, for an identifier matching no user as for a wrong
\* password, returns the same thing: the error "authorization failed", an
\* empty token and no user; and the login endpoint answers it with the same
\* status and body.
C4_UniformLoginFailure ==
    /\ \A p \in Procs :
         (proc[p].pc = "done" /\ proc[p].op = "login" /\ ~proc[p].res.ok)
         => /\ proc[p].res = AuthorizationFailed
            /\ proc[p].res.token = NoSession
            /\ proc[p].res.user = NoUser
            /\ LoginResponse(proc[p].res) =
                   [status |-> StatusUnauthorized, error |-> TRUE,
                    message |-> "authorization failed"]
    /\ \A p, q \in Procs :
         (proc[p].pc = "done" /\ proc[q].pc = "done"
            /\ proc[p].op = "login" /\ proc[q].op = "login"
            /\ ~proc[p].res.ok /\ ~proc[q].res.ok)
         => /\ proc[p].res = proc[q].res
            /\ LoginResponse(proc[p].res) = LoginResponse(proc[q].res)

\* C4 witness: one connection was refused for a wrong password of an existing
\* username, the other for an identifier that matches no user.
C4_Witness ==
    \E p, q \in Procs :
        /\ proc[p].pc = "done" /\ proc[p].op = "login" /\ ~proc[p].res.ok
        /\ proc[q].pc = "done" /\ proc[q].op = "login" /\ ~proc[q].res.ok
        /\ RowsWithUsername(proc[p].username) # {}
        /\ RowsWithUsername(proc[q].username) = {}
        /\ RowsWithEmail(proc[q].username) = {}

\* The session tokens the connections hold (each came from a login).
HeldSessions == {proc[p].sess : p \in {q \in Procs : proc[q].sess.kind = "jwt"}}

SignatureVerifies(tok) ==
    tok.kind = "jwt" /\ tok.alg \in HmacAlgs /\ tok.key = JwtSecret

\* C5: a token GenerateToken produced is accepted by ValidateToken at the
\* time of its issuance, which returns the id, username and is_admin of the
\* user it was issued for, and is rejected at every time later than 7 days
\* after its issuance.
C5_SessionTokenLifetime ==
    \A tok \in HeldSessions, b \in JwtBuilds :
        /\ now = tok.iat =>
             /\ ValidateToken(tok, now, b).ok
             /\ tok.user_id \in UserIds
             /\ ValidateToken(tok, now, b).claims =
                    [user_id |-> tok.user_id,
                     username |-> users[tok.user_id].username,
                     is_admin |-> users[tok.user_id].is_admin]
        /\ now > tok.iat + SessionTTL =>
             /\ ~ValidateToken(tok, now, b).ok
             /\ ValidateToken(tok, now, b).claims = NoClaims

\* C5 witness: a connection has presented the token it got at login more than
\* 7 days after the login, and was refused.
C5_Witness ==
    \E p \in Procs :
        /\ proc[p].pc = "done" /\ proc[p].op = "validate_token"
        /\ proc[p].sess.kind = "jwt"
        /\ proc[p].presented = proc[p].sess
        /\ now > proc[p].sess.iat + SessionTTL
        /\ ~proc[p].res.ok

\* C6 as stated: ValidateToken returns claims only for a token whose signature
\* verifies against the server secret and that carries an expiry later than
\* the current time; every other token string gets an error and no claims.
C6_ValidOnlyIfSignedAndUnexpired ==
    [][\A p \in Procs :
        Returned(p, "validate_token") =>
          LET presented == proc'[p].presented
              out == proc'[p].res
          IN  /\ out.ok => /\ SignatureVerifies(presented)
                           /\ presented.hasExp
                           /\ now < presented.exp
              /\ ~out.ok => out.err # "" /\ out.claims = NoClaims
    ]_vars

\* The reset tokens generated so far, by value.
ResetTokens == 1..Len(hist.rt)

\* C7 as stated: a reset token whose request returned success, and that was
\* neither consumed by a successful ResetPassword nor replaced by a newer
\* token for its e-mail, is accepted by ValidateResetToken (which returns its
\* e-mail) at every time up to 15 minutes after its issuance; every issued
\* token is rejected later than that, and a string never issued always is.
C7_ResetTokenLifetime ==
    /\ \A t \in ResetTokens :
         /\ (hist.rt[t].sent /\ hist.rt[t].uses = 0 /\ ~hist.rt[t].replaced
               /\ now <= hist.rt[t].at + ResetTokenTTL)
            => /\ ValidateResetTokenResult(t, now).ok
               /\ ValidateResetTokenResult(t, now).email = hist.rt[t].email
         /\ now > hist.rt[t].at + ResetTokenTTL
            => ~ValidateResetTokenResult(t, now).ok
    /\ ~ValidateResetTokenResult(NoResetToken, now).ok

\* C8 as stated, for a new password that differs from the old one: when
\* ResetPassword(token, newPassword) returns success, ValidateResetToken
\* rejects the token, a login with the old password fails and a login with
\* newPassword succeeds.
C8_AfterReset ==
    [][\A p \in Procs, u \in Usernames, old \in Passwords, new \in Passwords,
         t \in ResetTokens :
        (Returned(p, "reset_password") /\ proc'[p].res.ok
           /\ t = proc[p].rtok
           /\ u = users[proc[p].uid].username
           /\ old = proc[p].oldpw /\ new = proc[p].password
           /\ new # old)
        => /\ ~(ValidateResetTokenResult(t, now).ok)'
           /\ ~(LoginOutcome(u, old, now).ok)'
           /\ (LoginOutcome(u, new, now).ok)'
    ]_vars

\* C9 as stated: no reset token is used by more than one successful
\* ResetPassword.
C9_SingleUse ==
    \A t \in ResetTokens : hist.rt[t].uses <= 1

\* C10 as stated: no two requests are inside an operation on the reset-token
\* map at the same time.
C10_MutualExclusion ==
    \A p, q \in Procs : p # q => ~(InStore(p) /\ InStore(q))

\* The errors of ResetPassword that come from the validation of the token.
ValidationErrors == {"invalid reset token", "reset token has expired"}

\* C11: a ResetPassword request changes the reset-token map at two places
\* only: inside the validation, where it deletes the entry of an expired token
\* and returns that error, and at the delete that follows the UPDATE of the
\* password it was called with, after which it returns success.  A call that
\* fails for any other reason (password shorter than 8, user not found,
\* hashing failure, update failure) leaves the map and the users table as they
\* were: the token it validated is still accepted when the failure is returned
\* at once, and is still accepted if it was accepted just before the failure
\* was returned.
C11_TokenKeptOnFailure ==
    [][\A p \in Procs :
        /\ (proc'[p].op = "reset_password" /\ Ready(p) /\ proc'[p] # proc[p]) =>
             \A t \in ResetTokenInputs, pw \in Passwords :
               ResetPassword(p, t, pw) =>
                 /\ passwordResetStore' # passwordResetStore =>
                       /\ proc'[p].res = Fail("reset token has expired")
                       /\ \A e \in DOMAIN passwordResetStore :
                            /\ e \notin DOMAIN passwordResetStore' =>
                                 /\ passwordResetStore[e].Token = t
                                 /\ now > passwordResetStore[e].ExpiresAt
                            /\ e \in DOMAIN passwordResetStore' =>
                                 passwordResetStore'[e] = passwordResetStore[e]
                 /\ (proc'[p].pc = "done"
                       /\ proc'[p].res.err \notin ValidationErrors)
                       => /\ ~proc'[p].res.ok
                          /\ passwordResetStore' = passwordResetStore
                          /\ (ValidateResetTokenResult(t, now).ok)'
        /\ (proc[p].op = "reset_password" /\ proc[p].pc # "done"
              /\ proc'[p] # proc[p]) =>
             /\ passwordResetStore' # passwordResetStore =>
                   /\ proc[p].pc = "rp_consume"
                   /\ proc'[p].res.ok
             /\ proc'[p].pc = "rp_consume" =>
                   /\ proc[p].pc = "rp_update"
                   /\ users'[proc[p].uid].password_hash =
                          GenerateFromPassword(proc[p].password, BcryptResetCost)
             /\ (proc'[p].pc = "done" /\ ~proc'[p].res.ok) =>
                   /\ passwordResetStore' = passwordResetStore
                   /\ users' = users
                   /\ \A t \in ResetTokens :
                        (t = proc[p].rtok /\ ValidateResetTokenResult(t, now).ok)
                        => (ValidateResetTokenResult(t, now).ok)'
    ]_vars

\* C11 witness: a ResetPassword call has returned an update failure and the
\* only token issued, never used, is still accepted.
C11_Witness ==
    \E p \in Procs :
        /\ proc[p].pc = "done" /\ proc[p].op = "reset_password"
        /\ proc[p].res = Fail("failed to update password")
        /\ Len(hist.rt) = 1
        /\ hist.rt[1].uses = 0
        /\ ValidateResetTokenResult(1, now).ok

\* C12: once a newer reset token has been stored for an e-mail, every token
\* issued earlier for that e-mail is rejected by ValidateResetToken, from the
\* moment the newer one is stored and for ever after.
C12_OnlyNewestValid ==
    \A t1, t2 \in ResetTokens :
        (t1 < t2 /\ hist.rt[t1].email = hist.rt[t2].email)
        => ~ValidateResetTokenResult(t1, now).ok

\* C12 witness: two requests for one e-mail have both returned success; the
\* second token is accepted, the first is not, before either has expired.
C12_Witness ==
    /\ Len(hist.rt) = 2
    /\ hist.rt[1].email = hist.rt[2].email
    /\ hist.rt[1].sent /\ hist.rt[2].sent
    /\ now <= hist.rt[1].at + ResetTokenTTL
    /\ ValidateResetTokenResult(2, now).ok
    /\ ~ValidateResetTokenResult(1, now).ok

\* C13 as stated: a token whose request succeeded and that no ResetPassword
\* has used is accepted until its own 15-minute expiry, whether or not newer
\* tokens were issued for its e-mail since.
C13_OldTokensStayValid ==
    \A t \in ResetTokens :
        (hist.rt[t].sent /\ hist.rt[t].uses = 0
           /\ now <= hist.rt[t].at + ResetTokenTTL)
        => ValidateResetTokenResult(t, now).ok

\* C13 as amended: the map holds at most one token per e-mail, the newest
\* issued for it, with the expiry it was issued with; so no two tokens for one
\* e-mail are accepted at the same time.
C13_OneTokenPerEmail ==
    /\ \A e \in DOMAIN passwordResetStore :
         LET tok == passwordResetStore[e].Token
         IN  /\ tok \in ResetTokens
             /\ passwordResetStore[e].Email = e
             /\ hist.rt[tok].email = e
             /\ passwordResetStore[e].ExpiresAt = hist.rt[tok].at + ResetTokenTTL
             /\ \A t \in ResetTokens : hist.rt[t].email = e => t <= tok
    /\ \A t1, t2 \in ResetTokens :
         (t1 # t2 /\ hist.rt[t1].email = hist.rt[t2].email)
         => ~(ValidateResetTokenResult(t1, now).ok
              /\ ValidateResetTokenResult(t2, now).ok)

\* C13 witness: the first token was mailed and is rejected although its own
\* 15 minutes have not passed and nobody used it, because the map now holds
\* the second token issued for the same e-mail.
C13_Witness ==
    /\ Len(hist.rt) = 2
    /\ hist.rt[1].sent /\ hist.rt[1].uses = 0 /\ hist.rt[1].replaced
    /\ now <= hist.rt[1].at + ResetTokenTTL
    /\ hist.rt[2].email = hist.rt[1].email
    /\ hist.rt[2].email \in DOMAIN passwordResetStore
    /\ passwordResetStore[hist.rt[2].email].Token = 2
    /\ ~ValidateResetTokenResult(1, now).ok

\* The request that issued reset token t has not returned yet.
IssuingCallPending(t) ==
    \E p \in Procs : proc[p].pc \in {"rpr_mail", "rpr_rollback"} /\ proc[p].rtok = t

\* C15: a RequestPasswordReset call whose mail dispatch failed returns the
\* error "failed to send reset email", and from its return on the token it
\* issued is not in the map and ValidateResetToken rejects it.
C15_FailedDispatchDiscardsToken ==
    /\ \A t \in ResetTokens :
         (~hist.rt[t].sent /\ ~IssuingCallPending(t))
         => /\ EntriesWith(t) = {}
            /\ ~ValidateResetTokenResult(t, now).ok
    /\ \A p \in Procs :
         (proc[p].pc = "done" /\ proc[p].op = "request_reset" /\ ~proc[p].res.ok)
         => proc[p].res = Fail("failed to send reset email")
    /\ \A p \in Procs :
         proc[p].pc = "rpr_rollback" => ~hist.rt[proc[p].rtok].sent

\* C15 witness: the only token issued was not delivered, its request has
\* returned the failure, and the token is rejected within its 15 minutes.
C15_Witness ==
    /\ Len(hist.rt) = 1
    /\ ~hist.rt[1].sent
    /\ ~IssuingCallPending(1)
    /\ now <= hist.rt[1].at + ResetTokenTTL
    /\ \E p \in Procs :
         /\ proc[p].pc = "done" /\ proc[p].op = "request_reset"
         /\ proc[p].res = Fail("failed to send reset email")
    /\ ~ValidateResetTokenResult(1, now).ok

\* The e-mails a forgot-password request can hand to RequestPasswordReset.
RequestEmails == {Join(b) : b \in {c \in EmailBodies : isValidEmail(c)}}

\* C14: a RequestPasswordReset for an e-mail that no row of the users table
\* holds returns success at once: no token is generated, no mail step follows,
\* and the reset-token map and the users table are unchanged.
C14_UnknownEmailNoEffect ==
    [][\A p \in Procs :
        (proc'[p].op = "request_reset" /\ Ready(p) /\ proc'[p] # proc[p]) =>
          \A e \in RequestEmails :
            (RowsWithEmail(e) = {} /\ RequestPasswordReset(p, e))
            => /\ proc'[p].pc = "done"
               /\ proc'[p].res = [NoResult EXCEPT !.ok = TRUE]
               /\ passwordResetStore' = passwordResetStore
               /\ users' = users
               /\ nextToken' = nextToken
               /\ hist' = hist
    ]_vars

\* C14 witness: with a user registered, a request has returned success and no
\* token was ever generated.
C14_Witness ==
    /\ Len(users) = 1
    /\ nextToken = 1 /\ Len(hist.rt) = 0
    /\ passwordResetStore = <<>>
    /\ \E p \in Procs :
         proc[p].pc = "done" /\ proc[p].op = "request_reset" /\ proc[p].res.ok

\* C16: a forgot-password request whose body parses and carries a well-formed
\* e-mail is answered with 200 and the generic message, whatever the service
\* call returned (unknown e-mail, mail sent, mail failed); it is answered with
\* 400 only when the body does not parse or the e-mail is empty or malformed.
C16_ForgotPasswordUniform ==
    [][\A p \in Procs :
        (proc'[p].pc = "done"
           /\ proc'[p].op \in {"request_reset", "forgot_password"}
           /\ proc'[p] # proc[p]) =>
          LET resp == ForgotPasswordResponse(proc'[p])
          IN  /\ resp.status \in {StatusOK, StatusBadRequest}
              /\ proc'[p].op = "request_reset" => resp = GenericAck
              /\ Ready(p) =>
                   \A parsed \in BOOLEAN, body \in EmailBodies :
                     ForgotPassword(p, parsed, body) =>
                       /\ (parsed /\ Len(body) > 3 /\ Contains(body, "@")
                             /\ Contains(body, "."))
                            => resp = GenericAck
                       /\ resp.status = StatusBadRequest
                            => \/ ~parsed
                               \/ body = <<>>
                               \/ ~(Len(body) > 3 /\ Contains(body, "@")
                                     /\ Contains(body, "."))
              /\ resp.status = StatusBadRequest => Ready(p)
    ]_vars

\* C16 witness: one request for the registered e-mail has returned with the
\* mail failure, another returned for an e-mail nobody registered (the only
\* token ever generated is the first one's); both get the generic answer.
C16_Witness ==
    \E p, q \in Procs :
        /\ proc[p].pc = "done" /\ proc[p].op = "request_reset"
        /\ proc[p].res = Fail("failed to send reset email")
        /\ proc[q].pc = "done" /\ proc[q].op = "request_reset" /\ proc[q].res.ok
        /\ Len(hist.rt) = 1 /\ ~hist.rt[1].sent
        /\ ForgotPasswordResponse(proc[p]) = ForgotPasswordResponse(proc[q])

\* Header h has the form "Bearer <token>".
BearerForm(h) == h.parts = 2 /\ h.scheme = "Bearer"

\* C17: a request to a protected route reaches its handler exactly when its
\* Authorization header has the form "Bearer <token>" and ValidateToken
\* accepts the token; otherwise (no header, another form, a token that is
\* invalid or expired) it is answered 401, the handler does not run and
\* nothing is put into the request context; when the handler runs the context
\* holds the user id, username and is_admin of the token.
C17_ProtectedRouteGate ==
    [][\A p \in Procs :
        (proc'[p].op = "protected" /\ Ready(p) /\ proc'[p] # proc[p]) =>
          \A hin \in HeaderInputs, b \in JwtBuilds :
            (CanSend(p, hin)
               /\ proc'[p].http = ServeProtected(HeaderOf(p, hin), now, b)) =>
              LET h == HeaderOf(p, hin)
                  out == proc'[p].http
              IN  /\ out.handler <=>
                       (BearerForm(h) /\ ValidateToken(h.token, now, b).ok)
                  /\ ~out.handler =>
                       /\ out.status = StatusUnauthorized
                       /\ out.locals = NoClaims
                  /\ out.handler =>
                       out.locals = [user_id |-> h.token.user_id,
                                     username |-> h.token.username,
                                     is_admin |-> h.token.is_admin]
    ]_vars

\* C17 witness: one connection reached a protected handler with the claims of
\* the token it holds; the other, whose token has expired, got 401 for an
\* invalid or expired token.
C17_Witness ==
    \E p, q \in Procs :
        /\ proc[p].pc = "done" /\ proc[p].op = "protected"
        /\ proc[p].http.handler
        /\ proc[p].http.locals = ClaimsOf(proc[p].sess)
        /\ proc[q].pc = "done" /\ proc[q].op = "protected"
        /\ proc[q].sess.kind = "jwt" /\ now > proc[q].sess.exp
        /\ proc[q].http = Reject(StatusUnauthorized, "Invalid or expired token")

\* C18: a request to an admin route without a well-formed header and a token
\* ValidateToken accepts is answered 401 by the authentication gate; one with
\* an accepted token whose is_admin is false is answered 403; the admin
\* handler runs exactly for an accepted token whose is_admin is true.
C18_AdminGate ==
    [][\A p \in Procs :
        (proc'[p].op = "admin" /\ Ready(p) /\ proc'[p] # proc[p]) =>
          \A hin \in HeaderInputs, b \in JwtBuilds :
            (CanSend(p, hin)
               /\ proc'[p].http = ServeAdmin(HeaderOf(p, hin), now, b)) =>
              LET h == HeaderOf(p, hin)
                  out == proc'[p].http
                  valid == BearerForm(h) /\ ValidateToken(h.token, now, b).ok
              IN  /\ ~valid =>
                       /\ out.status = StatusUnauthorized
                       /\ out.message # "Admin access required"
                       /\ ~out.handler
                  /\ (valid /\ ~h.token.is_admin) =>
                       /\ out.status = StatusForbidden
                       /\ ~out.handler
                  /\ out.handler <=> (valid /\ h.token.is_admin)
    ]_vars

\* C18 witness: a holder of a token without is_admin got 403 from an admin
\* route, and a holder of a token with is_admin reached the admin handler.
C18_Witness ==
    \E p, q \in Procs :
        /\ proc[p].pc = "done" /\ proc[p].op = "admin"
        /\ proc[p].sess.kind = "jwt" /\ ~proc[p].sess.is_admin
        /\ proc[p].http = Reject(StatusForbidden, "Admin access required")
        /\ proc[q].pc = "done" /\ proc[q].op = "admin"
        /\ proc[q].sess.kind = "jwt" /\ proc[q].sess.is_admin
        /\ proc[q].http.handler
        /\ proc[q].http.locals.is_admin

\* C20 as stated: a logout request whose header is not "Bearer <token>" with
\* a token ValidateToken accepts is rejected with 401 and the logout handler
\* does not answer it.
C20_LogoutRequiresSession ==
    [][\A p \in Procs :
        (proc'[p].op = "logout" /\ Ready(p) /\ proc'[p] # proc[p]) =>
          \A hin \in HeaderInputs :
            (Logout(p, hin)
               /\ \A b \in JwtBuilds :
                    ~(BearerForm(HeaderOf(p, hin))
                      /\ ValidateToken(HeaderOf(p, hin).token, now, b).ok))
            => /\ proc'[p].http.status = StatusUnauthorized
               /\ ~proc'[p].http.handler
    ]_vars

\* C19: a token a login issued is accepted by ValidateToken, with the claims
\* it was issued with, at every time before its expiry, whatever has happened
\* since (a logout with it, further logins, a password reset of its user); and
\* a ValidateToken call that was refused a held token presented unchanged was
\* made at or after the token's expiry.
C19_NoServerSideRevocation ==
    /\ \A tok \in HeldSessions, b \in JwtBuilds :
         (tok.iat <= now /\ now < tok.exp)
         => /\ ValidateToken(tok, now, b).ok
            /\ ValidateToken(tok, now, b).claims = ClaimsOf(tok)
    /\ \A p \in Procs :
         (proc[p].pc = "done" /\ proc[p].op = "validate_token"
            /\ proc[p].presented = proc[p].sess /\ ~proc[p].res.ok)
         => now >= proc[p].sess.exp

\* C19 witness: a token was issued, then a password reset for its user was
\* requested and completed; one holder has logged out with the token, and a
\* ValidateToken call on the same token, before its expiry, has accepted it.
C19_Witness ==
    \E p, q \in Procs :
        /\ p # q
        /\ proc[p].pc = "done" /\ proc[p].op = "validate_token"
        /\ proc[p].sess.kind = "jwt"
        /\ proc[p].presented = proc[p].sess
        /\ proc[p].res.ok
        /\ now < proc[p].sess.exp
        /\ proc[q].pc = "done" /\ proc[q].op = "logout"
        /\ proc[q].sess = proc[p].sess
        /\ Len(hist.rt) >= 1
        /\ hist.rt[1].uses = 1
        /\ hist.rt[1].at > proc[p].sess.iat
        /\ proc[p].sess.user_id \in hist.pwChanged

\* C21: every row RegisterUser creates has is_admin = false, and no step of
\* a request to the auth core (RegisterUser, LoginUser, RequestPasswordReset,
\* ValidateResetToken, ResetPassword, GetUserByID, GenerateToken and
\* ValidateToken) changes the is_admin flag of a row that exists.
C21_IsAdminUntouched ==
    [][(proc' # proc)
        => /\ \A i \in UserIds : users'[i].is_admin = users[i].is_admin
           /\ \A i \in (DOMAIN users') \ UserIds : ~users'[i].is_admin]_vars

\* C21 witness: the operator made the registered user an administrator, a
\* password reset has since changed that user's password, and a login after
\* it returns the user, who is still an administrator.
C21_Witness ==
    \E p \in Procs :
        /\ proc[p].pc = "done" /\ proc[p].op = "login"
        /\ proc[p].res.ok
        /\ proc[p].res.user \in hist.pwChanged
        /\ proc[p].password = "passw0rd1"
        /\ users[proc[p].res.user].is_admin
        /\ proc[p].res.token.is_admin

PasswordPolicyError == Fail("password must be at least 8 characters")

StoredUnexpired(t) ==
    \E e \in EntriesWith(t) : now <= passwordResetStore[e].ExpiresAt

\* C23: a ValidateResetToken call on a token that is in the store and has not
\* expired returns the e-mail of the token's entry and leaves the store as it
\* was, so that the same call made again at that time returns the same.
C23_ValidateLeavesStore ==
    [][\A p \in Procs :
        (proc'[p].op = "validate_reset" /\ proc'[p] # proc[p])
        => \A t \in ResetTokens :
             (ValidateResetToken(p, t) /\ StoredUnexpired(t))
             => /\ \E e \in EntriesWith(t) :
                     /\ passwordResetStore[e].Email = e
                     /\ e = hist.rt[t].email
                     /\ proc'[p].res = [NoResult EXCEPT !.ok = TRUE, !.email = e]
                /\ passwordResetStore' = passwordResetStore
                /\ (ValidateResetTokenResult(t, now))' = ValidateResetTokenResult(t, now)
    ]_vars

\* C23 witness: the only reset token issued so far has been validated on both
\* connections, one call after the other, some time after it was issued; both
\* calls returned its e-mail and the token is still in the store, unexpired.
C23_Witness ==
    \E p, q \in Procs :
        /\ p # q
        /\ Len(hist.rt) = 1
        /\ now > hist.rt[1].at
        /\ StoredUnexpired(1)
        /\ proc[p].pc = "done" /\ proc[p].op = "validate_reset"
        /\ proc[q].pc = "done" /\ proc[q].op = "validate_reset"
        /\ proc[p].res = [NoResult EXCEPT !.ok = TRUE, !.email = hist.rt[1].email]
        /\ proc[q].res = proc[p].res

\* C24 as stated: two requests to the same reset endpoint (validate-reset-token
\* or reset-password) whose tokens ValidateResetToken rejected, one as unknown
\* and one as expired, get the same response.
C24_GenericTokenRejection ==
    \A p, q \in Procs :
        (/\ proc[p].pc = "done" /\ proc[q].pc = "done"
         /\ proc[p].op \in {"validate_reset", "reset_password"}
         /\ proc[q].op = proc[p].op
         /\ proc[p].res.err \in ValidationErrors
         /\ proc[q].res.err \in ValidationErrors)
        => ResetEndpointResponse(proc[p]) = ResetEndpointResponse(proc[q])

\* C25: a step changes the last_login of an existing user only if it is a
\* LoginUser call for that user returning success, which sets it to the
\* current time; a row is created without a last_login; so a failed login,
\* a registration and a password reset leave every last_login as it was.
\* And a LoginUser call with the password of the user it finds returns the
\* token and the user whether or not the UPDATE of last_login succeeded.
C25_LastLoginOnlyByLogin ==
    [][/\ \A i \in UserIds :
            users'[i].last_login # users[i].last_login
            => /\ users'[i].last_login = now
               /\ \E p \in Procs, ident \in {"alice", "nobody"}, pw \in ValidPasswords :
                     /\ LoginUser(p, ident, pw)
                     /\ proc'[p].res.ok
                     /\ proc'[p].res.user = i
       /\ \A i \in (DOMAIN users') \ UserIds : users'[i].last_login < 0
       /\ \A p \in Procs :
            (/\ proc'[p].op = "login" /\ Ready(p) /\ proc'[p] # proc[p]
             /\ LoginOutcome(proc'[p].username, proc'[p].password, now).ok)
            => /\ proc'[p].pc = "done"
               /\ proc'[p].res.ok
               /\ proc'[p].res.user = FindByUsernameOrEmail(proc'[p].username)
               /\ proc'[p].res.token = GenerateToken(users[proc'[p].res.user], now)
    ]_vars

\* C25 witness: the user registered, a password reset changed the password, a
\* login with a wrong password failed, and a login whose UPDATE of last_login
\* failed returned a token and the user: the user's last_login is still unset.
C25_Witness ==
    \E p, q \in Procs :
        /\ p # q
        /\ proc[p].pc = "done" /\ proc[p].op = "login"
        /\ proc[p].username = "alice" /\ proc[p].res = AuthorizationFailed
        /\ proc[q].pc = "done" /\ proc[q].op = "login"
        /\ proc[q].res.ok
        /\ proc[q].res.token.kind = "jwt"
        /\ proc[q].res.user \in hist.pwChanged
        /\ proc[q].password = "passw0rd1"
        /\ users[proc[q].res.user].last_login < 0

TablesUnchanged == playlists' = playlists /\ playlist_songs' = playlist_songs

Refused(p) == proc'[p].pc = "done" /\ ~proc'[p].res.ok

NoDuplicateSongs ==
    \A pl \in PlaylistIds, s \in Songs : Cardinality(SongRows(pl, s)) <= 1

\* C26: GetPlaylistByID, AddSong, RemoveSong and DeletePlaylist called for an
\* existing playlist with a user id other than its owner's return an error
\* and leave the playlists and playlist_songs tables as they were; a step of
\* AddSong or RemoveSong that writes to a playlist that exists belongs to a
\* call by its owner; AddSong of a song the playlist already holds returns an
\* error, also when the song arrived between its check and its INSERT; and
\* no playlist ever holds one song in two rows.
C26_OwnerOnly ==
    [][/\ \A p \in Procs, pl \in PlaylistIds, u \in PlaylistUsers :
            (pl \in DOMAIN playlists /\ playlists[pl].user_id # u)
            => /\ GetPlaylistByID(p, pl, u) => Refused(p) /\ TablesUnchanged
               /\ \A s \in Songs :
                    /\ AddSong(p, pl, s, u) => Refused(p) /\ TablesUnchanged
                    /\ RemoveSong(p, pl, s, u) => Refused(p) /\ TablesUnchanged
               /\ \A fk \in SqliteBuilds :
                    DeletePlaylist(p, pl, u, fk) => Refused(p) /\ TablesUnchanged
       /\ \A p \in Procs :
            (/\ proc[p].pc \in {"as_insert", "rs_delete"}
             /\ proc'[p] # proc[p]
             /\ proc[p].playlist \in DOMAIN playlists)
            => proc[p].uid = playlists[proc[p].playlist].user_id
       /\ \A p \in Procs, pl \in PlaylistIds, s \in Songs, u \in PlaylistUsers :
            (AddSong(p, pl, s, u) /\ SongRows(pl, s) # {})
            => Refused(p) /\ TablesUnchanged
       /\ \A p \in Procs, fk \in SqliteBuilds :
            (AddSongInsert(p, fk) /\ SongRows(proc[p].playlist, proc[p].song) # {})
            => Refused(p) /\ TablesUnchanged
       /\ NoDuplicateSongs'
    ]_vars

\* C26 witness: a playlist holds a song; AddSong by a user who does not own
\* the playlist was refused as unauthorized, and AddSong of the song it holds,
\* by the owner, was refused as a duplicate.
C26_Witness ==
    \E p, q \in Procs, pl \in DOMAIN playlists, s \in Songs :
        /\ p # q
        /\ SongRows(pl, s) # {}
        /\ proc[p].pc = "done" /\ proc[p].op = "add_song"
        /\ proc[p].res = Fail("unauthorized")
        /\ proc[q].pc = "done" /\ proc[q].op = "add_song"
        /\ proc[q].res = Fail("Song already in the playlist")

C28_FailedRequestKeepsStore ==
    [][\A p \in Procs :
        (proc[p].pc = "rpr_rollback" /\ proc'[p].pc = "done")
        => \A t \in ResetTokens :
             (/\ t < proc[p].rtok
              /\ hist.rt[t].email = proc[p].email
              /\ hist.rt[t].sent /\ hist.rt[t].uses = 0
              /\ now <= hist.rt[t].at + ResetTokenTTL)
             => (ValidateResetTokenResult(t, now).ok)'
    ]_vars

\* C28 as amended: when a RequestPasswordReset call returns the failure of
\* its mail dispatch, the map has no entry for the call's e-mail: the token
\* the call issued and every token issued before it for that e-mail are
\* rejected by ValidateResetToken.
C28_FailedRequestClearsEmail ==
    [][\A p \in Procs :
        (proc[p].pc = "rpr_rollback" /\ proc'[p].pc = "done")
        => /\ proc'[p].res = Fail("failed to send reset email")
           /\ proc[p].email \notin DOMAIN passwordResetStore'
           /\ \A t \in ResetTokens :
                (t <= proc[p].rtok /\ hist.rt[t].email = proc[p].email)
                => ~(ValidateResetTokenResult(t, now).ok)'
    ]_vars

\* C28 witness: a first request stored a token and its mail went out; a second
\* request for the same e-mail has returned the dispatch failure; the map is
\* empty and the first token, not expired, is rejected.
C28_Witness ==
    /\ Len(hist.rt) = 2
    /\ hist.rt[1].email = hist.rt[2].email
    /\ hist.rt[1].sent /\ hist.rt[1].uses = 0
    /\ ~hist.rt[2].sent /\ ~IssuingCallPending(2)
    /\ now <= hist.rt[1].at + ResetTokenTTL
    /\ DOMAIN passwordResetStore = {}
    /\ ~ValidateResetTokenResult(1, now).ok
    /\ \E p \in Procs :
         /\ proc[p].pc = "done" /\ proc[p].op = "request_reset"
         /\ proc[p].res = Fail("failed to send reset email")

\* C29: for every session token a client holds, from its issuance to its
\* expiry, a request with "Bearer <token>" passes the authentication gate with
\* exactly the token's user id, username and is_admin in its context, and
\* passes the admin gate exactly when the token's is_admin is true and is
\* answered 403 otherwise, whatever the users table holds at that time.
C29_GatesReadTokenOnly ==
    \A tok \in HeldSessions, b \in JwtBuilds :
        (tok.iat <= now /\ now < tok.exp)
        => LET h == Header("bearer", tok)
           IN  /\ ServeProtected(h, now, b) = Continue(ClaimsOf(tok))
               /\ ServeAdmin(h, now, b) =
                    IF tok.is_admin
                    THEN Continue(ClaimsOf(tok))
                    ELSE Reject(StatusForbidden, "Admin access required")

\* C29 witness: a token was issued to a user who was not an administrator;
\* the user has been made one since; a request with the token to an admin
\* route was answered 403 afterwards, and one to a protected route ran with
\* is_admin false in its context.
C29_Witness ==
    \E p, q \in Procs :
        /\ proc[p].sess.kind = "jwt" /\ proc[q].sess = proc[p].sess
        /\ ~proc[p].sess.is_admin
        /\ users[proc[p].sess.user_id].is_admin
        /\ now < proc[p].sess.exp
        /\ proc[p].pc = "done" /\ proc[p].op = "admin"
        /\ proc[p].http = Reject(StatusForbidden, "Admin access required")
        /\ ServeAdmin(Header("bearer", proc[p].sess), now, TRUE) = proc[p].http
        /\ proc[q].pc = "done" /\ proc[q].op = "protected"
        /\ proc[q].http = Continue(ClaimsOf(proc[q].sess))

\* C30: a reset token that has been issued and that ValidateResetToken
\* rejects (expired, consumed by a ResetPassword, discarded after a failed
\* dispatch, or replaced by a newer token) is rejected after every further
\* step as well: no operation makes it acceptable again.
C30_RejectionPermanent ==
    [][\A t \in ResetTokens :
        ~ValidateResetTokenResult(t, now).ok
        => ~(ValidateResetTokenResult(t, now).ok)'
    ]_vars

\* C30 witness: a ValidateResetToken call rejected the first token as expired
\* and purged it; a second token was issued after that and is accepted, and
\* the first is still rejected.
C30_Witness ==
    /\ Len(hist.rt) = 2
    /\ hist.rt[2].at > hist.rt[1].at + ResetTokenTTL
    /\ hist.rt[2].sent
    /\ EntriesWith(1) = {}
    /\ ~ValidateResetTokenResult(1, now).ok
    /\ ValidateResetTokenResult(2, now).ok
    /\ \E p \in Procs :
         /\ proc[p].pc = "done" /\ proc[p].op = "validate_reset"
         /\ proc[p].res = Fail("reset token has expired")

====
